---------------------------- MODULE Spec2Model ----------------------------
(***************************************************************************)
(* A model of TBone's resource dispatch engine                             *)
(* (src/tbone/resources/resources.py).                                     *)
(*                                                                         *)
(* A dispatch is the coroutine Resource.dispatch, started by the wrapper   *)
(* that Resource.as_view returns.  The coroutine runs without interruption *)
(* between its two suspension points (await self.request_body() and        *)
(* await view_method(...)), so the model has one action per uninterrupted  *)
(* segment.  Python values are modelled as records: a dict is a function   *)
(* from its keys, None is the record NoneValue, a string that the code     *)
(* builds with format() is a record of the parts it is built from.         *)
(***************************************************************************)
EXTENDS Integers, Sequences, FiniteSets, TLC

(***************************************************************************)
(* Bounds of the model.                                                    *)
(***************************************************************************)
NumDispatches == 2      \* dispatches that run concurrently under SpecConcurrent
MaxObjects == 2         \* longest 'objects' list an action returns
MaxClasses == 3         \* field classes made below BaseField
MaxBindings == 2        \* calls of add_to_class on one field

Dispatches == 1..NumDispatches

(***************************************************************************)
(* Status codes and exception classes of tbone/resources/http.py, which    *)
(* resources.py imports with "from .http import *".                        *)
(***************************************************************************)
OK == 200
CREATED == 201
ACCEPTED == 202
NO_CONTENT == 204

EmptyArgs == << >>

\* "Unsupported method '{0}' for {1} endpoint.".format(method, endpoint)
UnsupportedMessage(method, endpoint) ==
    [text |-> "Unsupported method for endpoint", method |-> method, endpoint |-> endpoint]

MethodNotImplemented(args) == [cls |-> "MethodNotImplemented", args |-> args, status |-> 501]
MethodNotAllowed(args) == [cls |-> "MethodNotAllowed", args |-> args, status |-> 405]
Unauthorized(args) == [cls |-> "Unauthorized", args |-> args, status |-> 401]
NotFound(args) == [cls |-> "NotFound", args |-> args, status |-> 404]

\* Exceptions of the Python runtime and of collaborators: they carry no
\* 'status' attribute.
PlainError(cls, text) == [cls |-> cls, args |-> <<[text |-> text]>>]

NoError == [cls |-> "NoError"]

(***************************************************************************)
(* str.upper() and str.lower() on the method names and allow-list entries  *)
(* the model uses.                                                         *)
(***************************************************************************)
Upper(s) ==
    CASE s \in {"get", "Get", "GET"} -> "GET"
      [] s \in {"post", "POST"} -> "POST"
      [] s \in {"put", "PUT"} -> "PUT"
      [] s \in {"patch", "PATCH"} -> "PATCH"
      [] s \in {"delete", "DELETE"} -> "DELETE"
      [] s \in {"options", "OPTIONS"} -> "OPTIONS"
      [] s \in {"head", "HEAD"} -> "HEAD"

Lower(s) ==
    CASE s \in {"get", "Get", "GET"} -> "get"
      [] s \in {"post", "POST"} -> "post"
      [] s \in {"put", "PUT"} -> "put"
      [] s \in {"patch", "PATCH"} -> "patch"
      [] s \in {"delete", "DELETE"} -> "delete"
      [] s \in {"options", "OPTIONS"} -> "options"
      [] s \in {"head", "HEAD"} -> "head"

(***************************************************************************)
(* Class attributes of Resource.                                           *)
(***************************************************************************)
status_map ==
    [list |-> OK, detail |-> OK, create |-> CREATED, update |-> ACCEPTED,
     delete |-> NO_CONTENT, update_list |-> ACCEPTED,
     create_detail |-> CREATED, delete_list |-> NO_CONTENT]

http_methods ==
    [list |-> [GET |-> "list", POST |-> "create", PUT |-> "update_list",
               PATCH |-> "modify_list", DELETE |-> "delete_list"],
     detail |-> [GET |-> "detail", POST |-> "create_detail", PUT |-> "update",
                 PATCH |-> "modify", DELETE |-> "delete"]]

\* self.http_methods.get(endpoint, {})
MethodTable(endpoint) ==
    IF endpoint \in DOMAIN http_methods THEN http_methods[endpoint]
    ELSE [k \in {} |-> "none"]

\* self.http_methods[endpoint][method]
ActionName(endpoint, method) == http_methods[endpoint][method]

\* the status looked up by the verb instead of the action name
SuccessStatusByVerb(endpoint, method) ==
    IF method \in DOMAIN status_map THEN status_map[method] ELSE OK

\* self.status_map.get(self.http_methods[endpoint][method], OK)
SuccessStatus(endpoint, method) ==
    LET name == ActionName(endpoint, method)
    IN  IF name \in DOMAIN status_map THEN status_map[name] ELSE OK

\* ResourceOptions.allowed_list / allowed_detail defaults
DefaultAllowed == {"get", "post", "put", "patch", "delete"}


\* ResourceOptions.serializer and the other options are collaborators: the
\* model keeps the two allow-lists, which dispatch reads.
AllowLists == {DefaultAllowed, {"get"}, {"GET", "Get", "post"}}

(***************************************************************************)
(* Python values.                                                          *)
(***************************************************************************)
NoneValue == [isNone |-> TRUE]
IsNone(d) == "isNone" \in DOMAIN d

EmptyDict == [k \in {} |-> "none"]
EmptyListValue == [py |-> "[]"]
EmptyDictValue == [py |-> "{}"]

\* the name of the primary-key field, self.pk, set by the concrete resource
pk == "pk"
\* getattr(self.__class__, 'api_name', None), 'resource_name': set by the router
api_name == "api"
resource_name == "resource"

\* str.format of a key: its decimal text
KeyText(key) == CASE key = 1 -> "1" [] key = 2 -> "2" [] key = 3 -> "3"

\* Resource.get_resource_uri: '/{}/{}/'.format(api_name, resource_name),
\* a string as the sequence of its pieces
get_resource_uri == <<"/", api_name, "/", resource_name, "/">>

\* '{}{}/'.format(self.get_resource_uri(), item[self.pk])
ItemUri(item) == get_resource_uri \o <<KeyText(item[pk]), "/">>

\* d[key] = value on a dict
SetKey(d, key, value) ==
    [k \in DOMAIN d \cup {key} |-> IF k = key THEN value ELSE d[k]]

(***************************************************************************)
(* What the collaborators hand to a dispatch.                              *)
(***************************************************************************)
RawMethods ==
    {"GET", "get", "POST", "PUT", "PATCH", "DELETE", "OPTIONS", "options", "HEAD"}
Endpoints == {"list", "detail", "other"}
AuthAnswers == {"yes", "no", "raises"}

\* route-resolved keyword arguments, passed to dispatch by the router
RouteKwargs == {EmptyDict, [pk |-> "route"]}

\* request_args(): a dict, or an exception
Returned(v) == [ok |-> TRUE, value |-> v]
Raises(e) == [ok |-> FALSE, err |-> e]

RequestArgs ==
    {Returned(EmptyDict), Returned([pk |-> "query"]), Returned([q |-> "query"]),
     Raises(PlainError("KeyError", "request_args"))}

Requests ==
    [method : RawMethods, hasdb : BOOLEAN, auth : AuthAnswers, args : RequestArgs]

\* await self.request_body()
BodyReads ==
    {Returned(""), Returned("doc"), Returned("garbage"),
     Raises(PlainError("IOError", "request_body"))}

\* the objects an action returns
Items == {[pk |-> 1], [pk |-> 2], [name |-> "x"]}

RECURSIVE SeqsUpTo(_, _)
SeqsUpTo(S, n) ==
    IF n = 0 THEN {<< >>}
    ELSE LET shorter == SeqsUpTo(S, n - 1)
         IN  shorter \cup {Append(q, x) : q \in shorter, x \in S}

Collections == {[objects |-> q] : q \in SeqsUpTo(Items, MaxObjects)}

\* await view_method(...): data, or an exception
ActionResults ==
    {Returned(NoneValue)} \cup {Returned(d) : d \in Items \cup Collections}
    \cup {Raises(MethodNotImplemented(EmptyArgs)),
          Raises(PlainError("RuntimeError", "action"))}


\* the ten action methods of Resource
ActionNames == {http_methods[e][m] : e \in {"list", "detail"}, m \in DOMAIN http_methods.list}

\* the action methods a resource class overrides: all of them, or none
ResourceClasses == {ActionNames, {}}

\* a default action that returns None
DefaultActionReturnsNone(name) == Returned(NoneValue)

\* Resource.list, detail, create, ... : raise MethodNotImplemented()
DefaultAction(name) == Raises(MethodNotImplemented(EmptyArgs))

(***************************************************************************)
(* State.                                                                  *)
(***************************************************************************)
VARIABLES
    _meta,       \* the resource class's ResourceOptions (shared by all dispatches)
    overridden,  \* the action methods the resource class defines itself
    pc,          \* where each dispatch's coroutine stands
    requests,    \* the request handed to each call of the as_view wrapper
    instances,   \* the fields of each Resource instance
    this,        \* the instance each coroutine runs on (its self)
    frame,       \* the local variables of each coroutine
    outcome,     \* what each dispatch returned or raised
    trace,       \* the steps each dispatch has taken, in order
    classes,     \* the field classes made by FieldMeta, in the order of their making
    field,       \* the attributes of the field instance
    models,      \* the namespace of each model class: the descriptors set on it
    _data,       \* the store of the model instance
    ran,         \* the last call on the field or on a model instance, and its result
    bindings,    \* the calls of add_to_class so far
    written      \* per attribute, the last value set and not deleted

\* the state of the field engine
fieldVars == <<classes, field, models, _data, ran, bindings, written>>

\* the state of the dispatch engine
resourceVars == <<_meta, overridden, pc, requests, instances, this, frame, outcome, trace>>

vars == <<resourceVars, fieldVars>>

\* the model classes a field is added to
Models == {"M1", "M2"}

\* a name the object does not have
Absent == [absent |-> TRUE]
NoField == [made |-> FALSE]
NoCall == [op |-> "none"]

\* before any field is made
NoInstances ==
    /\ field = NoField
    /\ models = [m \in Models |-> EmptyDict]
    /\ _data = EmptyDict
    /\ ran = NoCall
    /\ bindings = << >>
    /\ written = EmptyDict

\* before any field class is made
NoFields == classes = << >> /\ NoInstances

NoRequest == [method |-> "None"]
NoInstance == 0

\* Resource.__init__
NewFields ==
    [request |-> 0, data |-> NoneValue, endpoint |-> "None", status |-> 200,
     hasdb |-> FALSE]

NoFrame == [endpoint |-> "None"]
Pending == [kind |-> "pending"]

\* the value build_response returns, with the call site that built it
Response(body, status, via) ==
    [kind |-> "response", body |-> body, status |-> status, via |-> via]
\* an exception that leaves dispatch
Raised(e) == [kind |-> "raised", exc |-> e]

NoBody == [kind |-> "None"]
EmptyBody == [kind |-> "empty"]
\* self._meta.serializer.serialize(data)
Serialized(data) == [kind |-> "serialized", data |-> data]

(***************************************************************************)
(* Resource.is_method_allowed                                              *)
(***************************************************************************)
\* is_method_allowed without lower(): the verb is compared as upper() left it
is_method_allowed_as_written(endpoint, method) ==
    IF endpoint = "list" THEN method \in _meta.allowed_list
    ELSE IF endpoint = "detail" THEN method \in _meta.allowed_detail
    ELSE FALSE

is_method_allowed(endpoint, method) ==
    IF endpoint = "list" THEN Lower(method) \in _meta.allowed_list
    ELSE IF endpoint = "detail" THEN Lower(method) \in _meta.allowed_detail
    ELSE FALSE

(***************************************************************************)
(* The three checks that open the try block of dispatch.  The result is    *)
(* the exception raised (NoError when all pass) and the checks evaluated.  *)
(***************************************************************************)
\* Gates with the allow-list check ahead of the verb table and the
\* authenticator ahead of both
GatesAuthFirst(endpoint, method, request) ==
    IF request.auth = "no"
    THEN [err |-> Unauthorized(EmptyArgs), steps |-> <<"auth">>]
    ELSE IF is_method_allowed(endpoint, method) = FALSE
    THEN [err |-> MethodNotAllowed(<<UnsupportedMessage(method, endpoint)>>),
          steps |-> <<"auth", "allow">>]
    ELSE IF method \notin DOMAIN MethodTable(endpoint)
    THEN [err |-> MethodNotImplemented(<<UnsupportedMessage(method, endpoint)>>),
          steps |-> <<"auth", "allow", "resolve">>]
    ELSE [err |-> NoError, steps |-> <<"auth", "allow", "resolve">>]

\* Gates without the authentication check
GatesSkipAuth(endpoint, method, request) ==
    IF method \notin DOMAIN MethodTable(endpoint)
    THEN [err |-> MethodNotImplemented(<<UnsupportedMessage(method, endpoint)>>),
          steps |-> <<"resolve">>]
    ELSE IF is_method_allowed(endpoint, method) = FALSE
    THEN [err |-> MethodNotAllowed(<<UnsupportedMessage(method, endpoint)>>),
          steps |-> <<"resolve", "allow">>]
    ELSE [err |-> NoError, steps |-> <<"resolve", "allow">>]

Gates(endpoint, method, request) ==
    IF method \notin DOMAIN MethodTable(endpoint)
    THEN [err |-> MethodNotImplemented(<<UnsupportedMessage(method, endpoint)>>),
          steps |-> <<"resolve">>]
    ELSE IF is_method_allowed(endpoint, method) = FALSE
    THEN [err |-> MethodNotAllowed(<<UnsupportedMessage(method, endpoint)>>),
          steps |-> <<"resolve", "allow">>]
    ELSE IF request.auth = "raises"
    THEN [err |-> PlainError("RuntimeError", "is_authenticated"),
          steps |-> <<"resolve", "allow", "auth">>]
    ELSE IF request.auth = "no"
    THEN [err |-> Unauthorized(EmptyArgs), steps |-> <<"resolve", "allow", "auth">>]
    ELSE [err |-> NoError, steps |-> <<"resolve", "allow", "auth">>]

\* the preflight test against the lower-case name, which upper() never yields
IsPreflightLowerCase(method) == method = "options"

\* if method == 'OPTIONS'
IsPreflight(method) == method = "OPTIONS"

(***************************************************************************)
(* Resource.deserialize, deserialize_list, deserialize_detail.  The        *)
(* serializer's deserialize raises on a body it cannot parse.              *)
(***************************************************************************)
SerializerDeserialize(body) ==
    IF body = "garbage" THEN Raises(PlainError("ValueError", "deserialize"))
    ELSE Returned([py |-> "parsed", body |-> body])

deserialize_list(body) ==
    IF body # "" THEN SerializerDeserialize(body) ELSE Returned(EmptyListValue)

deserialize_detail(body) ==
    IF body # "" THEN SerializerDeserialize(body) ELSE Returned(EmptyDictValue)

deserialize(method, endpoint, body) ==
    IF endpoint = "list" THEN deserialize_list(body) ELSE deserialize_detail(body)

\* the merge with the route's keyword arguments winning
MergeArgsRouteWins(kwargs, args) ==
    [k \in DOMAIN kwargs \cup DOMAIN args |->
        IF k \in DOMAIN kwargs THEN kwargs[k] ELSE args[k]]

\* kwargs.update(self.request_args())
MergeArgs(kwargs, args) ==
    [k \in DOMAIN kwargs \cup DOMAIN args |->
        IF k \in DOMAIN args THEN args[k] ELSE kwargs[k]]

(***************************************************************************)
(* Resource.serialize, serialize_list, serialize_detail.  serializerOk is  *)
(* whether the serializer's serialize returns (TRUE) or raises (FALSE).    *)
(* The result records the path taken, whether the serializer was called    *)
(* and the data handed to it.                                              *)
(***************************************************************************)
SerializeReturns(path, body, called) ==
    [ok |-> TRUE, path |-> path, body |-> body, called |-> called]
SerializeRaises(path, e, called) ==
    [ok |-> FALSE, path |-> path, err |-> e, called |-> called]

SerializerSerialize(path, data, serializerOk) ==
    IF serializerOk THEN SerializeReturns(path, Serialized(data), TRUE)
    ELSE SerializeRaises(path, PlainError("TypeError", "serialize"), TRUE)

\* Resource.get_resource_data: a copy of the dict
get_resource_data(data) == [k \in DOMAIN data |-> data[k]]

\* serialize_list giving every item the uri of the first item
serialize_list_first_key(data, serializerOk) ==
    IF IsNone(data) THEN SerializeReturns("list", EmptyBody, FALSE)
    ELSE IF "objects" \notin DOMAIN data
    THEN SerializeRaises("list", PlainError("KeyError", "objects"), FALSE)
    ELSE IF \E n \in 1..Len(data.objects) : pk \notin DOMAIN data.objects[n]
    THEN SerializeRaises("list", PlainError("KeyError", pk), FALSE)
    ELSE SerializerSerialize("list",
            [data EXCEPT !.objects =
                [n \in 1..Len(data.objects) |->
                    SetKey(data.objects[n], "resource_uri", ItemUri(data.objects[1]))]],
            serializerOk)

serialize_list(data, serializerOk) ==
    IF IsNone(data) THEN SerializeReturns("list", EmptyBody, FALSE)
    ELSE IF "objects" \notin DOMAIN data
    THEN SerializeRaises("list", PlainError("KeyError", "objects"), FALSE)
    ELSE IF \E n \in 1..Len(data.objects) : pk \notin DOMAIN data.objects[n]
    THEN SerializeRaises("list", PlainError("KeyError", pk), FALSE)
    ELSE SerializerSerialize("list",
            [data EXCEPT !.objects =
                [n \in 1..Len(data.objects) |->
                    SetKey(data.objects[n], "resource_uri", ItemUri(data.objects[n]))]],
            serializerOk)

serialize_detail(data, serializerOk) ==
    IF IsNone(data) THEN SerializeReturns("detail", EmptyBody, FALSE)
    ELSE IF pk \notin DOMAIN data
    THEN SerializeRaises("detail", PlainError("KeyError", pk), FALSE)
    ELSE SerializerSerialize("detail",
            get_resource_data(SetKey(data, "resource_uri", ItemUri(data))),
            serializerOk)

\* serialize without the POST case of the list endpoint
serialize_by_endpoint(method, endpoint, data, serializerOk) ==
    IF IsNone(data) /\ method = "GET"
    THEN SerializeRaises("none", NotFound(EmptyArgs), FALSE)
    ELSE IF endpoint = "list" THEN serialize_list(data, serializerOk)
    ELSE serialize_detail(data, serializerOk)

\* serialize that raises NotFound on None under every verb
serialize_none_not_found(method, endpoint, data, serializerOk) ==
    IF IsNone(data)
    THEN SerializeRaises("none", NotFound(EmptyArgs), FALSE)
    ELSE IF endpoint = "list"
    THEN IF method = "POST" THEN serialize_detail(data, serializerOk)
         ELSE serialize_list(data, serializerOk)
    ELSE serialize_detail(data, serializerOk)

serialize(method, endpoint, data, serializerOk) ==
    IF IsNone(data) /\ method = "GET"
    THEN SerializeRaises("none", NotFound(EmptyArgs), FALSE)
    ELSE IF endpoint = "list"
    THEN IF method = "POST" THEN serialize_detail(data, serializerOk)
         ELSE serialize_list(data, serializerOk)
    ELSE serialize_detail(data, serializerOk)

(***************************************************************************)
(* Resource.dispatch_error.  firstOk and fallbackOk are whether the        *)
(* serializer returns on {'error': [args]} and on {'error': str(err)}.     *)
(***************************************************************************)
\* str(err) of an exception: '' without args, the argument's text with one
ExceptionStr(err) == IF err.args = << >> THEN [text |-> ""] ELSE err.args[1]

\* getattr(err, 'status', 500)
ErrorStatus(err) == IF "status" \in DOMAIN err THEN err.status ELSE 500

dispatch_error(err, firstOk, fallbackOk) ==
    IF firstOk
    THEN Response(Serialized([error |-> [list |-> err.args]]), ErrorStatus(err), "error")
    ELSE IF fallbackOk
    THEN Response(Serialized([error |-> [str |-> ExceptionStr(err)]]),
                  ErrorStatus(err), "error")
    ELSE Raised(PlainError("TypeError", "serialize"))

\* the steps dispatch_error takes
ErrorSteps(result) ==
    IF result.kind = "response" THEN <<"dispatch_error", "build_response">>
    ELSE <<"dispatch_error">>


(***************************************************************************)
(* The calls of the wrapper that as_view returns: the request, the         *)
(* view_type the wrapper was made for and the router's keyword arguments.  *)
(***************************************************************************)
Calls == [request : Requests, view_type : Endpoints, kwargs : RouteKwargs]

\* one instance kept by the wrapper and used for every call
SharedInstance(i) == 1

\* instance = cls(...): a new instance for every call
NewInstance(i) == i

Unset == [unset |-> TRUE]

\* the frame of dispatch(endpoint, *args, **kwargs) when the coroutine is made
NewFrame(call) ==
    [endpoint |-> call.view_type, route_kwargs |-> call.kwargs,
     kwargs |-> call.kwargs, method |-> "None",
     read |-> Unset, view_method |-> "None", seen_data |-> Unset, passed |-> Unset,
     result |-> Unset, serialized |-> Unset, err |-> NoError]

\* before any call of the wrapper
NoDispatches ==
    /\ pc = [i \in Dispatches |-> "idle"]
    /\ requests = [i \in Dispatches |-> NoRequest]
    /\ instances = [s \in Dispatches |-> NewFields]
    /\ this = [i \in Dispatches |-> NoInstance]
    /\ frame = [i \in Dispatches |-> NoFrame]
    /\ outcome = [i \in Dispatches |-> Pending]
    /\ trace = [i \in Dispatches |-> << >>]

Init ==
    /\ _meta \in [allowed_list : AllowLists, allowed_detail : AllowLists]
    /\ overridden \in ResourceClasses
    /\ NoFields
    /\ NoDispatches

(***************************************************************************)
(* _wrapper of as_view: make the instance, set its request, make the       *)
(* dispatch coroutine.                                                     *)
(***************************************************************************)
AsView(i, calls) ==
    /\ pc[i] = "idle"
    /\ \E call \in calls :
        /\ requests' = [requests EXCEPT ![i] = call.request]
        /\ this' = [this EXCEPT ![i] = NewInstance(i)]
        /\ instances' = [instances EXCEPT ![NewInstance(i)] =
                            [NewFields EXCEPT !.request = i]]
        /\ frame' = [frame EXCEPT ![i] = NewFrame(call)]
    /\ pc' = [pc EXCEPT ![i] = "called"]
    /\ UNCHANGED <<fieldVars, _meta, overridden, outcome, trace>>

\* a dispatch that never finds a db on the application
HasDbNever(request) == FALSE

\* hasattr(self.request.app, 'db')
HasDb(request) == request.hasdb

\* the request self.request refers to
SelfRequest(i) == requests[instances[this[i]].request]

(***************************************************************************)
(* dispatch, from its first line to await self.request_body().             *)
(***************************************************************************)
DispatchStart(i, answers) ==
    /\ pc[i] = "called"
    /\ LET self == this[i]
           endpoint == frame[i].endpoint
           request == SelfRequest(i)
           method == Upper(request.method)
           withEndpoint == [instances EXCEPT ![self].endpoint = endpoint]
           withDb == IF HasDb(request)
                     THEN [withEndpoint EXCEPT ![self].hasdb = TRUE]
                     ELSE withEndpoint
           dbSteps == IF HasDb(request) THEN <<"set_db">> ELSE << >>
           gates == Gates(endpoint, method, request)
       IN  IF IsPreflight(method)
           THEN /\ instances' = withEndpoint
                /\ frame' = [frame EXCEPT ![i].method = method]
                /\ outcome' = [outcome EXCEPT ![i] =
                                  Response(NoBody, NO_CONTENT, "preflight")]
                /\ trace' = [trace EXCEPT ![i] = <<"build_response">>]
                /\ pc' = [pc EXCEPT ![i] = "done"]
           ELSE IF gates.err.cls # "NoError"
           THEN \E firstOk, fallbackOk \in answers :
                LET result == dispatch_error(gates.err, firstOk, fallbackOk)
                IN  /\ instances' = withDb
                    /\ frame' = [frame EXCEPT ![i].method = method,
                                              ![i].err = gates.err]
                    /\ outcome' = [outcome EXCEPT ![i] = result]
                    /\ trace' = [trace EXCEPT ![i] =
                                    dbSteps \o gates.steps \o ErrorSteps(result)]
                    /\ pc' = [pc EXCEPT ![i] = "done"]
           ELSE /\ instances' = withDb
                /\ frame' = [frame EXCEPT ![i].method = method]
                /\ trace' = [trace EXCEPT ![i] = dbSteps \o gates.steps]
                /\ pc' = [pc EXCEPT ![i] = "body"]
                /\ UNCHANGED outcome
    /\ UNCHANGED <<fieldVars, _meta, overridden, requests, this>>

(***************************************************************************)
(* dispatch, from the return of await self.request_body() to               *)
(* await view_method(...).                                     *)
(***************************************************************************)
BodyRead(i, reads, answers) ==
    /\ pc[i] = "body"
    /\ \E read \in reads, firstOk, fallbackOk \in answers :
        LET self == this[i]
            endpoint == frame[i].endpoint
            method == frame[i].method
            data == deserialize(method, endpoint, read.value)
            args == SelfRequest(i).args
            err == IF ~read.ok THEN read.err
                   ELSE IF ~data.ok THEN data.err
                   ELSE IF ~args.ok THEN args.err
                   ELSE NoError
            steps == IF ~read.ok THEN <<"request_body">>
                     ELSE IF ~data.ok THEN <<"request_body", "deserialize">>
                     ELSE IF ~args.ok
                     THEN <<"request_body", "deserialize", "request_args">>
                     ELSE <<"request_body", "deserialize", "request_args", "invoke">>
            result == dispatch_error(err, firstOk, fallbackOk)
        IN  /\ instances' = IF read.ok /\ data.ok
                            THEN [instances EXCEPT ![self].data = data.value]
                            ELSE instances
            /\ IF err.cls # "NoError"
               THEN /\ frame' = [frame EXCEPT ![i].read = read, ![i].err = err]
                    /\ outcome' = [outcome EXCEPT ![i] = result]
                    /\ trace' = [trace EXCEPT ![i] = @ \o steps \o ErrorSteps(result)]
                    /\ pc' = [pc EXCEPT ![i] = "done"]
               ELSE /\ frame' = [frame EXCEPT
                        ![i].read = read,
                        ![i].kwargs = MergeArgs(frame[i].kwargs, args.value),
                        ![i].view_method = ActionName(endpoint, method),
                        ![i].seen_data = data.value,
                        ![i].passed = MergeArgs(frame[i].kwargs, args.value)]
                    /\ trace' = [trace EXCEPT ![i] = @ \o steps]
                    /\ pc' = [pc EXCEPT ![i] = "action"]
                    /\ UNCHANGED outcome
    /\ UNCHANGED <<fieldVars, _meta, overridden, requests, this>>

\* await view_method(...): what the method getattr(self, name) found can do
view_method(name, results) ==
    IF name \in overridden THEN results ELSE {DefaultAction(name)}

(***************************************************************************)
(* dispatch, from the return of await view_method(...) to its end.         *)
(***************************************************************************)
ActionReturn(i, results, answers) ==
    /\ pc[i] = "action"
    /\ \E result \in view_method(frame[i].view_method, results),
           serializerOk, firstOk, fallbackOk \in answers :
        LET endpoint == frame[i].endpoint
            method == frame[i].method
            serialized == serialize(method, endpoint, result.value, serializerOk)
            err == IF ~result.ok THEN result.err
                   ELSE IF ~serialized.ok THEN serialized.err
                   ELSE NoError
            steps == IF ~result.ok THEN <<"action_raised">>
                     ELSE <<"action_returned", "serialize">>
            failure == dispatch_error(err, firstOk, fallbackOk)
        IN  IF err.cls # "NoError"
            THEN /\ frame' = [frame EXCEPT
                        ![i].result = result,
                        ![i].serialized = IF result.ok THEN serialized ELSE Unset,
                        ![i].err = err]
                 /\ outcome' = [outcome EXCEPT ![i] = failure]
                 /\ trace' = [trace EXCEPT ![i] = @ \o steps \o ErrorSteps(failure)]
            ELSE /\ frame' = [frame EXCEPT ![i].result = result,
                                           ![i].serialized = serialized]
                 /\ outcome' = [outcome EXCEPT ![i] =
                        Response(serialized.body, SuccessStatus(endpoint, method),
                                 "success")]
                 /\ trace' = [trace EXCEPT ![i] = @ \o steps \o <<"build_response">>]
    /\ pc' = [pc EXCEPT ![i] = "done"]
    /\ UNCHANGED <<fieldVars, _meta, overridden, requests, instances, this>>

(***************************************************************************)
(* Spec: one dispatch, over every call, body, action result and answer of  *)
(* the serializer (TRUE: serialize returns, FALSE: it raises).              *)
(***************************************************************************)
Next ==
    \/ AsView(1, Calls)
    \/ DispatchStart(1, BOOLEAN)
    \/ BodyRead(1, BodyReads, BOOLEAN)
    \/ ActionReturn(1, ActionResults, BOOLEAN)

Spec == Init /\ [][Next]_vars

(***************************************************************************)
(* SpecConcurrent: NumDispatches dispatches of one resource class, their   *)
(* segments interleaved at the suspension points, over fewer calls: the    *)
(* default allow-lists, authenticated requests, a serializer that returns. *)
(***************************************************************************)
ConcurrentCalls ==
    {call \in Calls :
        /\ call.request.method \in {"get", "POST"}
        /\ call.request.hasdb
        /\ call.request.auth = "yes"
        /\ call.request.args \in {Returned(EmptyDict), Returned([pk |-> "query"])}
        /\ call.view_type \in {"list", "detail"}
        /\ call.kwargs = [pk |-> "route"]}

ConcurrentReads == {Returned(""), Returned("doc")}

ConcurrentResults == {Returned(NoneValue), Returned([pk |-> 1])}

InitConcurrent ==
    /\ Init
    /\ overridden = ActionNames
    /\ _meta = [allowed_list |-> DefaultAllowed, allowed_detail |-> DefaultAllowed]

NextConcurrent ==
    \E i \in Dispatches :
        \/ AsView(i, ConcurrentCalls)
        \/ DispatchStart(i, {TRUE})
        \/ BodyRead(i, ConcurrentReads, {TRUE})
        \/ ActionReturn(i, ConcurrentResults, {TRUE})

SpecConcurrent == InitConcurrent /\ [][NextConcurrent]_vars


(***************************************************************************)
(* Vocabulary of the properties.                                           *)
(***************************************************************************)
Done(i) == pc[i] = "done"
Started(i) == pc[i] \notin {"idle", "called"}

\* the verb of the request of dispatch i, as request_method() returns it
Verb(i) == Upper(requests[i].method)

\* the verb is in the verb table of the endpoint shape
InVerbTable(endpoint, verb) ==
    /\ endpoint \in DOMAIN http_methods
    /\ verb \in DOMAIN http_methods[endpoint]

\* the configured allow-list of an endpoint shape
AllowListOf(endpoint) ==
    IF endpoint = "list" THEN _meta.allowed_list ELSE _meta.allowed_detail

\* how often a step occurs in a trace, and where it first occurs (0: nowhere)
Count(t, step) == Cardinality({n \in 1..Len(t) : t[n] = step})
Pos(t, step) ==
    IF \E n \in 1..Len(t) : t[n] = step
    THEN CHOOSE n \in 1..Len(t) : t[n] = step /\ \A m \in 1..(n - 1) : t[m] # step
    ELSE 0
Has(t, step) == Pos(t, step) > 0
Precedes(t, a, b) == Has(t, a) /\ Has(t, b) /\ Pos(t, a) < Pos(t, b)

\* the error caught at the dispatch boundary has this class and status, and
\* the response, when one was built, is the error response with that status
FailsWith(i, cls, status) ==
    /\ frame[i].err.cls = cls
    /\ ErrorStatus(frame[i].err) = status
    /\ outcome[i].kind = "response" =>
        /\ outcome[i].via = "error"
        /\ outcome[i].status = status
        /\ outcome[i].body.kind = "serialized"
        /\ "error" \in DOMAIN outcome[i].body.data

(***************************************************************************)
(* C1: for a verb other than OPTIONS the three gates have a fixed          *)
(* precedence and each its own status: a verb missing from the verb table  *)
(* of the endpoint shape fails with 501; else a verb missing from the      *)
(* allow-list of the shape fails with 405; else a request the              *)
(* authenticator answers False for fails with 401.  The error body has an  *)
(* 'error' field.                                                          *)
(***************************************************************************)
GatePrecedence ==
    \A i \in Dispatches :
        (Done(i) /\ Verb(i) # "OPTIONS") =>
            LET endpoint == frame[i].endpoint
                verb == Verb(i)
            IN  IF ~InVerbTable(endpoint, verb)
                THEN FailsWith(i, "MethodNotImplemented", 501)
                ELSE IF Lower(verb) \notin AllowListOf(endpoint)
                THEN FailsWith(i, "MethodNotAllowed", 405)
                ELSE requests[i].auth = "no" => FailsWith(i, "Unauthorized", 401)

\* a disallowed verb on a request the authenticator rejects: answered 405;
\* here POST to the list endpoint under allowed_list = ['get']
GatePrecedenceWitness ==
    \E i \in Dispatches :
        /\ Done(i)
        /\ _meta.allowed_list = {"get"}
        /\ frame[i].endpoint = "list"
        /\ Verb(i) = "POST"
        /\ requests[i].auth = "no"
        /\ outcome[i].kind = "response"
        /\ outcome[i].status = 405

(***************************************************************************)
(* C2: an exception raised inside the try block of dispatch is caught      *)
(* once and never leaves dispatch: dispatch_error is called once,          *)
(* build_response is called once and not from the success path, the        *)
(* status is the exception's 'status' or 500; every dispatch ends in       *)
(* exactly one response.                                                   *)
(***************************************************************************)
ExactlyOneResponse ==
    \A i \in Dispatches :
        Done(i) =>
            /\ outcome[i].kind = "response"
            /\ Count(trace[i], "build_response") = 1
            /\ frame[i].err.cls # "NoError" =>
                /\ Count(trace[i], "dispatch_error") = 1
                /\ outcome[i].via = "error"
                /\ outcome[i].status = ErrorStatus(frame[i].err)

(***************************************************************************)
(* C3: a request whose verb is OPTIONS is answered 204 whatever the        *)
(* endpoint shape, the allow-lists and the authenticator's answer; the     *)
(* authenticator is not consulted, the body is not read, nothing is        *)
(* deserialized and no action is invoked.                                  *)
(***************************************************************************)
PreflightAnswered ==
    \A i \in Dispatches :
        (Started(i) /\ Verb(i) = "OPTIONS") =>
            /\ Done(i)
            /\ outcome[i].kind = "response"
            /\ outcome[i].status = 204
            /\ outcome[i].body = NoBody
            /\ trace[i] = <<"build_response">>
            /\ instances[this[i]].data = NoneValue
            /\ frame[i].view_method = "None"

\* OPTIONS in lower case, on an endpoint of neither shape, with an
\* authenticator that would answer False
PreflightWitness ==
    \E i \in Dispatches :
        /\ Done(i)
        /\ requests[i].method = "options"
        /\ frame[i].endpoint = "other"
        /\ requests[i].auth = "no"
        /\ outcome[i].status = 204

(***************************************************************************)
(* C4: the steps of a dispatch are ordered and guarded: the body is read   *)
(* only after the verb table, the allow-list and the authenticator have    *)
(* passed; the action is invoked only after the body was read and          *)
(* deserialized into self.data; the result is serialized only after the    *)
(* action returned; the response is built last.  No action is invoked for  *)
(* a rejected request, a disallowed verb or a verb missing from the table. *)
(***************************************************************************)
StepsInOrder ==
    \A i \in Dispatches :
        LET t == trace[i]
            endpoint == frame[i].endpoint
        IN  /\ Has(t, "request_body") =>
                /\ Precedes(t, "resolve", "allow")
                /\ Precedes(t, "allow", "auth")
                /\ Precedes(t, "auth", "request_body")
                /\ InVerbTable(endpoint, Verb(i))
                /\ Lower(Verb(i)) \in AllowListOf(endpoint)
                /\ requests[i].auth = "yes"
            /\ (Has(t, "invoke") \/ pc[i] = "action") =>
                /\ Precedes(t, "request_body", "deserialize")
                /\ Precedes(t, "deserialize", "invoke")
                /\ frame[i].seen_data # Unset
                /\ frame[i].seen_data = instances[this[i]].data
                /\ InVerbTable(endpoint, Verb(i))
                /\ Lower(Verb(i)) \in AllowListOf(endpoint)
                /\ requests[i].auth = "yes"
            /\ Has(t, "serialize") =>
                /\ Precedes(t, "invoke", "action_returned")
                /\ Precedes(t, "action_returned", "serialize")
                /\ ~Has(t, "action_raised")
            /\ Has(t, "build_response") =>
                /\ Pos(t, "build_response") = Len(t)
                /\ Done(i)
            /\ outcome[i].kind = "response" /\ outcome[i].via = "success" =>
                Precedes(t, "serialize", "build_response")

\* a dispatch that went through every step and built the success response
StepsInOrderWitness ==
    \E i \in Dispatches :
        /\ Done(i)
        /\ outcome[i].kind = "response"
        /\ outcome[i].via = "success"
        /\ trace[i] = <<"resolve", "allow", "auth", "request_body", "deserialize",
                        "request_args", "invoke", "action_returned", "serialize",
                        "build_response">>


ActionReturned(i) == Done(i) /\ frame[i].result # Unset /\ frame[i].result.ok

(***************************************************************************)
(* C5: GET whose action returns None ends in the 404 error response, on    *)
(* the list and on the detail endpoint.  POST on the list endpoint whose   *)
(* action returns an item goes through serialize_detail and is answered    *)
(* 201 with the single object as body.  Every other verb on the list       *)
(* endpoint goes through serialize_list, and the detail endpoint always    *)
(* through serialize_detail.                                               *)
(***************************************************************************)
SerializePaths ==
    \A i \in Dispatches :
        ActionReturned(i) =>
            LET endpoint == frame[i].endpoint
                verb == Verb(i)
                data == frame[i].result.value
                serialized == frame[i].serialized
                serializerRaised == serialized.called /\ ~serialized.ok
            IN  IF verb = "GET" /\ IsNone(data)
                THEN /\ FailsWith(i, "NotFound", 404)
                     /\ serialized.path = "none"
                ELSE /\ (endpoint = "list" /\ verb = "POST") => serialized.path = "detail"
                     /\ (endpoint = "list" /\ verb # "POST") => serialized.path = "list"
                     /\ endpoint = "detail" => serialized.path = "detail"
                     /\ (/\ endpoint = "list"
                         /\ verb = "POST"
                         /\ pk \in DOMAIN data
                         /\ ~serializerRaised) =>
                            /\ outcome[i].kind = "response"
                            /\ outcome[i].via = "success"
                            /\ outcome[i].status = 201
                            /\ outcome[i].body.kind = "serialized"
                            /\ "objects" \notin DOMAIN outcome[i].body.data
                            /\ outcome[i].body.data[pk] = data[pk]

\* POST on the list endpoint created the item with key 1: answered 201
SerializePathsWitness ==
    \E i \in Dispatches :
        /\ ActionReturned(i)
        /\ frame[i].endpoint = "list"
        /\ Verb(i) = "POST"
        /\ frame[i].result.value = [pk |-> 1]
        /\ frame[i].serialized.path = "detail"
        /\ outcome[i].kind = "response"
        /\ outcome[i].status = 201

StatusOfAction(name) ==
    CASE name \in {"list", "detail"} -> 200
      [] name \in {"create", "create_detail"} -> 201
      [] name \in {"update", "update_list"} -> 202
      [] name \in {"delete", "delete_list"} -> 204
      [] OTHER -> 200

ActionOfVerb(endpoint, verb) ==
    IF endpoint = "list"
    THEN CASE verb = "GET" -> "list" [] verb = "POST" -> "create"
           [] verb = "PUT" -> "update_list" [] verb = "PATCH" -> "modify_list"
           [] verb = "DELETE" -> "delete_list"
    ELSE CASE verb = "GET" -> "detail" [] verb = "POST" -> "create_detail"
           [] verb = "PUT" -> "update" [] verb = "PATCH" -> "modify"
           [] verb = "DELETE" -> "delete"

(***************************************************************************)
(* C6: on the success path the status depends on the action name alone:    *)
(* list 200, detail 200, create 201, update 202, delete 204, update_list   *)
(* 202, create_detail 201, delete_list 204, and 200 for the names outside  *)
(* the table (modify, modify_list).                                        *)
(***************************************************************************)
SuccessStatusByAction ==
    \A i \in Dispatches :
        (Done(i) /\ outcome[i].kind = "response" /\ outcome[i].via = "success") =>
            /\ frame[i].view_method = ActionOfVerb(frame[i].endpoint, Verb(i))
            /\ outcome[i].status = StatusOfAction(frame[i].view_method)

\* PUT on the detail endpoint resolved to update and was answered 202
SuccessStatusWitness ==
    \E i \in Dispatches :
        /\ Done(i)
        /\ outcome[i].kind = "response"
        /\ outcome[i].via = "success"
        /\ frame[i].endpoint = "detail"
        /\ Verb(i) = "PUT"
        /\ frame[i].view_method = "update"
        /\ outcome[i].status = 202

Invoked(i) == pc[i] \in {"action", "done"} /\ frame[i].passed # Unset

(***************************************************************************)
(* C7 as stated: when the router's keyword arguments and request_args()    *)
(* supply the same keyword, the action receives the router's value; a      *)
(* keyword supplied by one side only is passed unchanged.                  *)
(***************************************************************************)
RouteArgumentsWin ==
    \A i \in Dispatches :
        Invoked(i) =>
            LET route == frame[i].route_kwargs
                query == requests[i].args.value
                passed == frame[i].passed
            IN  /\ DOMAIN passed = DOMAIN route \cup DOMAIN query
                /\ \A k \in DOMAIN passed :
                    passed[k] = IF k \in DOMAIN route THEN route[k] ELSE query[k]

(***************************************************************************)
(* C7 as the code has it: when both sides supply the same keyword, the     *)
(* action receives the value of request_args(); a keyword supplied by one  *)
(* side only is passed unchanged.                                          *)
(***************************************************************************)
RequestArgumentsWin ==
    \A i \in Dispatches :
        Invoked(i) =>
            LET route == frame[i].route_kwargs
                query == requests[i].args.value
                passed == frame[i].passed
            IN  /\ DOMAIN passed = DOMAIN route \cup DOMAIN query
                /\ \A k \in DOMAIN passed :
                    passed[k] = IF k \in DOMAIN query THEN query[k] ELSE route[k]

\* both sides supply pk: the action receives the value of request_args()
RequestArgumentsWinWitness ==
    \E i \in Dispatches :
        /\ Invoked(i)
        /\ frame[i].route_kwargs = [pk |-> "route"]
        /\ requests[i].args.value = [pk |-> "query"]
        /\ frame[i].passed = [pk |-> "query"]

ReachedAllowCheck(i) ==
    /\ Started(i)
    /\ Verb(i) # "OPTIONS"
    /\ InVerbTable(frame[i].endpoint, Verb(i))

PassedAllowCheck(i) == Has(trace[i], "auth")

(***************************************************************************)
(* C8 as stated: a verb of the verb table passes the allow-list check      *)
(* exactly when the allow-list of the shape holds the verb in some letter  *)
(* case, and a verb that does not pass fails with MethodNotAllowed.        *)
(***************************************************************************)
AllowListAnyCase ==
    \A i \in Dispatches :
        ReachedAllowCheck(i) =>
            /\ PassedAllowCheck(i) <=>
                \E entry \in AllowListOf(frame[i].endpoint) : Lower(entry) = Lower(Verb(i))
            /\ ~PassedAllowCheck(i) => FailsWith(i, "MethodNotAllowed", 405)

(***************************************************************************)
(* C8 as the code has it: only the request's verb is lower-cased; a verb   *)
(* of the verb table passes exactly when the allow-list of the shape holds *)
(* its lower-case name as written (so ['GET'] or ['Get'] does not admit a  *)
(* GET request), and a verb that does not pass fails with                  *)
(* MethodNotAllowed.                                                       *)
(***************************************************************************)
AllowListLowerCaseOnly ==
    \A i \in Dispatches :
        ReachedAllowCheck(i) =>
            /\ PassedAllowCheck(i) <=> Lower(Verb(i)) \in AllowListOf(frame[i].endpoint)
            /\ ~PassedAllowCheck(i) => FailsWith(i, "MethodNotAllowed", 405)

\* GET on the detail endpoint is refused with 405 by an allow-list that
\* holds 'GET' and 'Get' but not 'get'
AllowListWitness ==
    \E i \in Dispatches :
        /\ ReachedAllowCheck(i)
        /\ Verb(i) = "GET"
        /\ frame[i].endpoint = "detail"
        /\ {"GET", "Get"} \subseteq _meta.allowed_detail
        /\ ~PassedAllowCheck(i)
        /\ outcome[i].kind = "response"
        /\ outcome[i].status = 405


(***************************************************************************)
(* C9 as stated: dispatch_error always produces a response: whatever the   *)
(* serializer does with the error body, build_response is called with a    *)
(* body and the status taken from the exception.                           *)
(***************************************************************************)
ErrorAlwaysAnswered ==
    \A i \in Dispatches :
        (Done(i) /\ Has(trace[i], "dispatch_error")) =>
            /\ outcome[i].kind = "response"
            /\ outcome[i].status = ErrorStatus(frame[i].err)
            /\ outcome[i].body.kind = "serialized"
            /\ Has(trace[i], "build_response")

\* the outcomes of dispatch i run alone on its own call, body and action
\* result, over the answers of the serializer
AloneOutcomes(i) ==
    LET endpoint == frame[i].endpoint
        verb == Verb(i)
        gates == Gates(endpoint, verb, requests[i])
        read == frame[i].read
        data == deserialize(verb, endpoint, read.value)
        args == requests[i].args
        result == frame[i].result
        Errors(e) == {dispatch_error(e, a, b) : a, b \in BOOLEAN}
    IN  IF verb = "OPTIONS" THEN {Response(NoBody, NO_CONTENT, "preflight")}
        ELSE IF gates.err.cls # "NoError" THEN Errors(gates.err)
        ELSE IF ~read.ok THEN Errors(read.err)
        ELSE IF ~data.ok THEN Errors(data.err)
        ELSE IF ~args.ok THEN Errors(args.err)
        ELSE IF ~result.ok THEN Errors(result.err)
        ELSE UNION {
                LET serialized == serialize(verb, endpoint, result.value, ok)
                IN  IF serialized.ok
                    THEN {Response(serialized.body, SuccessStatus(endpoint, verb),
                                   "success")}
                    ELSE Errors(serialized.err)
                : ok \in BOOLEAN}

OwnState(i) ==
    /\ pc[i] # "idle" =>
        /\ \A j \in Dispatches \ {i} : pc[j] # "idle" => this[j] # this[i]
        /\ instances[this[i]].request = i
    /\ Started(i) =>
        /\ instances[this[i]].endpoint = frame[i].endpoint
        /\ frame[i].method = Verb(i)
        /\ instances[this[i]].hasdb = (requests[i].hasdb /\ Verb(i) # "OPTIONS")
    /\ Invoked(i) =>
        /\ instances[this[i]].data =
                deserialize(Verb(i), frame[i].endpoint, frame[i].read.value).value
        /\ frame[i].seen_data = instances[this[i]].data
        /\ frame[i].view_method = ActionName(frame[i].endpoint, Verb(i))
        /\ frame[i].passed = MergeArgs(frame[i].route_kwargs, requests[i].args.value)
    /\ Done(i) => outcome[i] \in AloneOutcomes(i)

(***************************************************************************)
(* C10: concurrent dispatches are independent.  Every call of the wrapper  *)
(* runs on an instance no other call uses; at every point of every         *)
(* interleaving the endpoint, the deserialized data, the action and its    *)
(* arguments, and the response of a dispatch are those its own request,    *)
(* body and action result give when it runs alone; no dispatch writes the  *)
(* resource configuration.                                                 *)
(***************************************************************************)
DispatchesIndependent ==
    /\ [](\A i \in Dispatches : OwnState(i))
    /\ [][_meta' = _meta]_vars

\* two dispatches of different endpoints and bodies, both suspended in their
\* actions at the same time, each with its own data
DispatchesIndependentWitness ==
    /\ pc[1] = "action"
    /\ pc[2] = "action"
    /\ frame[1].endpoint = "list"
    /\ frame[2].endpoint = "detail"
    /\ instances[this[1]].data = EmptyListValue
    /\ instances[this[2]].data = [py |-> "parsed", body |-> "doc"]
    /\ frame[1].passed = [pk |-> "route"]
    /\ frame[2].passed = [pk |-> "query"]

\* '/{api_name}/{resource_name}/{key}/'
UriOfKey(key) == <<"/", api_name, "/", resource_name, "/", KeyText(key), "/">>

\* item with the key 'resource_uri' added and every other key as it was
WithUri(item, sent) ==
    /\ DOMAIN sent = DOMAIN item \cup {"resource_uri"}
    /\ sent.resource_uri = UriOfKey(item[pk])
    /\ \A k \in DOMAIN item \ {"resource_uri"} : sent[k] = item[k]

(***************************************************************************)
(* C16: the data serialize_list hands to the serializer has the items of   *)
(* the action's result, in their order, each with a resource_uri of the    *)
(* form '/{api_name}/{resource_name}/{pk of that item}/' made from its own *)
(* key: no item is without one and none carries the key of another item.   *)
(* The object serialize_detail hands to the serializer carries a           *)
(* resource_uri of the same form, made from its own key.                   *)
(***************************************************************************)
ResourceUriInjected ==
    \A i \in Dispatches :
        (ActionReturned(i) /\ frame[i].serialized.ok /\ frame[i].serialized.called) =>
            LET data == frame[i].result.value
                sent == frame[i].serialized.body.data
            IN  IF frame[i].serialized.path = "list"
                THEN /\ DOMAIN sent = DOMAIN data
                     /\ Len(sent.objects) = Len(data.objects)
                     /\ \A n \in 1..Len(data.objects) :
                            WithUri(data.objects[n], sent.objects[n])
                ELSE WithUri(data, sent)

\* a list of two items with the keys 2 and 1 was serialized, each item with
\* the uri of its own key
ResourceUriInjectedWitness ==
    \E i \in Dispatches :
        /\ ActionReturned(i)
        /\ frame[i].serialized.ok
        /\ frame[i].serialized.path = "list"
        /\ frame[i].result.value = [objects |-> <<[pk |-> 2], [pk |-> 1]>>]
        /\ frame[i].serialized.body.data.objects[1].resource_uri =
                <<"/", "api", "/", "resource", "/", "2", "/">>
        /\ frame[i].serialized.body.data.objects[2].resource_uri =
                <<"/", "api", "/", "resource", "/", "1", "/">>

(***************************************************************************)
(* C18: on a resource class that overrides no action method, every         *)
(* dispatch that reaches the action, on either endpoint shape and under    *)
(* any of the five verbs, has the action raise MethodNotImplemented: the   *)
(* error caught at the dispatch boundary is that one, its response is the  *)
(* error response with status 501, and no dispatch is answered as a        *)
(* success.                                                                *)
(***************************************************************************)
DefaultActionsNotImplemented ==
    \A i \in Dispatches :
        overridden = {} =>
            /\ (Done(i) /\ Has(trace[i], "invoke")) =>
                    /\ frame[i].view_method \in ActionNames
                    /\ frame[i].result = Raises(MethodNotImplemented(EmptyArgs))
                    /\ Has(trace[i], "action_raised")
                    /\ FailsWith(i, "MethodNotImplemented", 501)
            /\ (Done(i) /\ outcome[i].kind = "response") => outcome[i].via # "success"

\* PATCH on the list endpoint of such a class reached modify_list and was
\* answered 501
DefaultActionsWitness ==
    \E i \in Dispatches :
        /\ overridden = {}
        /\ Done(i)
        /\ frame[i].endpoint = "list"
        /\ Verb(i) = "PATCH"
        /\ frame[i].view_method = "modify_list"
        /\ Has(trace[i], "action_raised")
        /\ outcome[i].kind = "response"
        /\ outcome[i].status = 501

(***************************************************************************)
(* C19 as stated: whenever the application of the request exposes a db,    *)
(* the instance has it attached before anything else happens in dispatch,  *)
(* under every verb, OPTIONS included: attaching it is the first step and  *)
(* every dispatch that has started runs on an instance that has the db.    *)
(***************************************************************************)
DbAttachedFirst ==
    \A i \in Dispatches :
        (Started(i) /\ requests[i].hasdb) =>
            /\ instances[this[i]].hasdb
            /\ trace[i][1] = "set_db"

(***************************************************************************)
(* C19 as the code has it: under OPTIONS the preflight response is built   *)
(* and returned without the db being attached.  Under every other verb     *)
(* attaching the db is the first step, before the verb-table and allow-    *)
(* list checks, authentication, the body read and the action.  Without a   *)
(* db on the application nothing is attached.                              *)
(***************************************************************************)
DbAttachedAfterPreflight ==
    \A i \in Dispatches :
        Started(i) =>
            IF requests[i].hasdb /\ Verb(i) # "OPTIONS"
            THEN /\ instances[this[i]].hasdb
                 /\ trace[i][1] = "set_db"
                 /\ Count(trace[i], "set_db") = 1
            ELSE /\ ~instances[this[i]].hasdb
                 /\ ~Has(trace[i], "set_db")

\* a HEAD request with a db was refused at the verb table on an instance
\* that had the db attached
DbAttachedWitness ==
    \E i \in Dispatches :
        /\ Done(i)
        /\ requests[i].hasdb
        /\ Verb(i) = "HEAD"
        /\ instances[this[i]].hasdb
        /\ trace[i][1] = "set_db"
        /\ frame[i].err.cls = "MethodNotImplemented"

(***************************************************************************)
(* C20: under a verb other than GET an action that returns None does not   *)
(* fail the dispatch: serialize returns the empty string without calling   *)
(* the serializer and without a resource_uri, and the response is the      *)
(* success response with the empty body and the status of the resolved     *)
(* action: 204 for DELETE on the detail endpoint, 201 for POST on the list *)
(* endpoint, 200 for PATCH.                                                *)
(***************************************************************************)
NoneResultSucceeds ==
    \A i \in Dispatches :
        (ActionReturned(i) /\ IsNone(frame[i].result.value) /\ Verb(i) # "GET") =>
            /\ frame[i].serialized = SerializeReturns(frame[i].serialized.path,
                                                      EmptyBody, FALSE)
            /\ frame[i].err = NoError
            /\ outcome[i] = Response(EmptyBody,
                                     StatusOfAction(ActionOfVerb(frame[i].endpoint,
                                                                 Verb(i))),
                                     "success")
            /\ (Verb(i) = "DELETE" /\ frame[i].endpoint = "detail") =>
                    outcome[i].status = 204
            /\ (Verb(i) = "POST" /\ frame[i].endpoint = "list") =>
                    outcome[i].status = 201
            /\ Verb(i) = "PATCH" => outcome[i].status = 200

\* DELETE on the detail endpoint whose action returned None was answered
\* 204 with the empty body
NoneResultWitness ==
    \E i \in Dispatches :
        /\ ActionReturned(i)
        /\ IsNone(frame[i].result.value)
        /\ Verb(i) = "DELETE"
        /\ frame[i].endpoint = "detail"
        /\ ~frame[i].serialized.called
        /\ outcome[i] = Response(EmptyBody, 204, "success")

(***************************************************************************)
(* The field engine: tbone/data/fields/base.py.                            *)
(*                                                                         *)
(* A class is the record of its bases, its method resolution order and its *)
(* namespace attrs; a namespace is the sequence of its (name, value)       *)
(* items, in the order of their definition.  A class is named by its       *)
(* place in the sequence of the classes made; object is left out of the    *)
(* bases and of the resolution orders.                                     *)
(***************************************************************************)
Item(name, value) == [name |-> name, value |-> value]
Names(items) == [n \in 1..Len(items) |-> items[n].name]
Range(q) == {q[n] : n \in 1..Len(q)}
Reversed(q) == [n \in 1..Len(q) |-> q[Len(q) + 1 - n]]
Least(S) == CHOOSE n \in S : \A m \in S : n <= m

\* name in d
In(name, items) == name \in Range(Names(items))

\* d[name]
Get(items, name) ==
    items[CHOOSE n \in 1..Len(items) : items[n].name = name].value

\* d[name] = value on a dict that keeps the order of insertion: a key the
\* dict has keeps its place, a new key goes to the end
SetItem(items, name, value) ==
    IF In(name, items)
    THEN [n \in 1..Len(items) |->
            IF items[n].name = name THEN Item(name, value) ELSE items[n]]
    ELSE Append(items, Item(name, value))

\* d.update(other)
RECURSIVE DictUpdate(_, _)
DictUpdate(items, other) ==
    IF other = << >> THEN items
    ELSE DictUpdate(SetItem(items, Head(other).name, Head(other).value), Tail(other))

\* hasattr(cls, name): some class of the resolution order has the name
HasAttr(hierarchy, cls, name) ==
    \E n \in 1..Len(hierarchy[cls].mro) : In(name, hierarchy[hierarchy[cls].mro[n]].attrs)

\* getattr(cls, name): the value in the first class of the resolution order
\* that has the name
GetAttr(hierarchy, cls, name) ==
    LET mro == hierarchy[cls].mro
        first == Least({n \in 1..Len(mro) : In(name, hierarchy[mro[n]].attrs)})
    IN  Get(hierarchy[mro[first]].attrs, name)

(***************************************************************************)
(* The method resolution order type.__new__ computes (C3): the class, then *)
(* the merge of the orders of its bases and of the list of the bases.  The *)
(* merge takes the first head that is in the tail of no list; when there   *)
(* is none the class cannot be made.                                       *)
(***************************************************************************)
RECURSIVE Merge(_)
Merge(lists) ==
    LET left == SelectSeq(lists, LAMBDA q : q # << >>)
        heads == {n \in 1..Len(left) :
                    \A m \in 1..Len(left) : Head(left[n]) \notin Range(Tail(left[m]))}
    IN  IF left = << >> THEN [ok |-> TRUE, order |-> << >>]
        ELSE IF heads = {} THEN [ok |-> FALSE, order |-> << >>]
        ELSE LET head == Head(left[Least(heads)])
                 rest == Merge([n \in 1..Len(left) |->
                                   SelectSeq(left[n], LAMBDA c : c # head)])
             IN  [ok |-> rest.ok, order |-> <<head>> \o rest.order]

Mro(hierarchy, cls, bases) ==
    LET merged == Merge([n \in 1..Len(bases) |-> hierarchy[bases[n]].mro] \o <<bases>>)
    IN  [ok |-> merged.ok, order |-> <<cls>> \o merged.order]

(***************************************************************************)
(* FieldMeta.__new__(mcs, name, bases, attrs), for the class that becomes  *)
(* number cls of the hierarchy.                                            *)
(***************************************************************************)
\* name.startswith('validate_')
StartsWithValidate(name) == name \in {"validate_a", "validate_b"}

\* the loop over reversed(bases): errors.update(base.ERRORS)
RECURSIVE AccumulateErrors(_, _, _)
AccumulateErrors(hierarchy, bases, errors) ==
    IF bases = << >> THEN errors
    ELSE AccumulateErrors(hierarchy, Tail(bases),
            IF HasAttr(hierarchy, Head(bases), "ERRORS")
            THEN DictUpdate(errors, GetAttr(hierarchy, Head(bases), "ERRORS"))
            ELSE errors)

\* the loop over reversed(bases): validators.update(base._validators)
RECURSIVE AccumulateValidators(_, _, _)
AccumulateValidators(hierarchy, bases, validators) ==
    IF bases = << >> THEN validators
    ELSE AccumulateValidators(hierarchy, Tail(bases),
            IF HasAttr(hierarchy, Head(bases), "_validators")
            THEN DictUpdate(validators, GetAttr(hierarchy, Head(bases), "_validators"))
            ELSE validators)

\* the loop over attrs.items(): the items whose name starts with 'validate_'
\* and whose value is callable
RECURSIVE OwnValidators(_)
OwnValidators(attrs) ==
    IF attrs = << >> THEN << >>
    ELSE (IF StartsWithValidate(Head(attrs).name) /\ Head(attrs).value.callable
          THEN <<Head(attrs)>> ELSE << >>)
         \o OwnValidators(Tail(attrs))

\* the validator map put together with the class's own members first
MergeValidatorsOwnFirst(inherited, own) == DictUpdate(own, inherited)

\* validators[name] = attr for the class's own validators, after the bases
MergeValidators(inherited, own) == DictUpdate(inherited, own)

FieldMeta_new(hierarchy, cls, bases, attrs) ==
    LET inheritedErrors == AccumulateErrors(hierarchy, Reversed(bases), << >>)
        errors == IF In("ERRORS", attrs)
                  THEN DictUpdate(inheritedErrors, Get(attrs, "ERRORS"))
                  ELSE inheritedErrors
        withErrors == SetItem(attrs, "_errors", errors)
        validators == MergeValidators(
                        AccumulateValidators(hierarchy, Reversed(bases), << >>),
                        OwnValidators(withErrors))
    IN  [bases |-> bases,
         mro |-> Mro(hierarchy, cls, bases).order,
         attrs |-> SetItem(withErrors, "_validators", validators)]

(***************************************************************************)
(* The classes.  BaseField is the first class made; its namespace has the  *)
(* two type attributes and the ERRORS table.  A message is named by the    *)
(* class that declares it and its kind.                                    *)
(***************************************************************************)
BaseField == 1

Message(cls, kind) == [of |-> cls, kind |-> kind]

\* the ERRORS table a class body declares for the kinds, in their order
ErrorTable(cls, kinds) == [n \in 1..Len(kinds) |-> Item(kinds[n], Message(cls, kinds[n]))]

BaseFieldAttrs ==
    <<Item("data_type", NoneValue), Item("python_type", NoneValue),
      Item("ERRORS", ErrorTable(BaseField, <<"required", "to_data", "to_python">>))>>

\* a member of a class body: a function, or a value that cannot be called
Function(cls, name) == [callable |-> TRUE, of |-> cls, name |-> name]
Value(cls, name) == [callable |-> FALSE, of |-> cls, name |-> name]

\* the members of the class bodies, as (name, is a function), in the order
\* of their definition
Bodies ==
    {<<<<"validate_a", TRUE>>>>,
     <<<<"validate_a", TRUE>>, <<"validate_b", TRUE>>>>,
     <<<<"validate_b", TRUE>>, <<"validate_a", TRUE>>>>,
     <<<<"validate_b", FALSE>>>>,
     <<<<"clean", TRUE>>>>}

\* the kinds of the ERRORS table of the class bodies; none: no table
NoTable == <<"none">>
Tables == {NoTable, << >>, <<"required">>, <<"custom">>, <<"to_data", "custom">>}

ClassBody(cls, members, kinds) ==
    [n \in 1..Len(members) |->
        Item(members[n][1], IF members[n][2] THEN Function(cls, members[n][1])
                            ELSE Value(cls, members[n][1]))]
    \o (IF kinds = NoTable THEN << >> ELSE <<Item("ERRORS", ErrorTable(cls, kinds))>>)

\* the bases of a class statement: one or two of the classes made so far
BaseLists(hierarchy) ==
    {<<a>> : a \in 1..Len(hierarchy)}
    \cup {q \in (1..Len(hierarchy)) \X (1..Len(hierarchy)) : q[1] # q[2]}

\* class BaseField(object, metaclass=FieldMeta)
InitFieldClasses ==
    /\ _meta = [allowed_list |-> DefaultAllowed, allowed_detail |-> DefaultAllowed]
    /\ overridden = ActionNames
    /\ NoDispatches
    /\ classes = <<FieldMeta_new(<< >>, BaseField, << >>, BaseFieldAttrs)>>
    /\ NoInstances

\* a class statement below BaseField: FieldMeta.__new__ makes the class when
\* type.__new__ finds a resolution order
DefineClass(bodies, tables) ==
    /\ classes # << >>
    /\ Len(classes) <= MaxClasses
    /\ \E bases \in BaseLists(classes), members \in bodies, kinds \in tables :
        LET cls == Len(classes) + 1
        IN  /\ Mro(classes, cls, bases).ok
            /\ classes' = Append(classes,
                    FieldMeta_new(classes, cls, bases, ClassBody(cls, members, kinds)))
    /\ UNCHANGED <<resourceVars, field, models, _data, ran, bindings, written>>

(***************************************************************************)
(* SpecValidators: the hierarchies of up to MaxClasses classes below       *)
(* BaseField, over the class bodies, none with an ERRORS table.            *)
(***************************************************************************)
NextValidators == DefineClass(Bodies, {NoTable})

SpecValidators == InitFieldClasses /\ [][NextValidators]_vars

(***************************************************************************)
(* SpecErrors: the hierarchies of up to MaxClasses classes below           *)
(* BaseField, over the ERRORS tables, the class bodies without members.    *)
(***************************************************************************)
NextErrors == DefineClass({<< >>}, Tables)

SpecErrors == InitFieldClasses /\ [][NextErrors]_vars

(***************************************************************************)
(* Vocabulary of the properties of the field classes.                      *)
(***************************************************************************)
FieldClasses == 1..Len(classes)

\* the class made last; every class is the last one in the state its making
\* leads to
LastClass == {Len(classes)}

\* the class and its ancestors
Ancestors(cls) == Range(classes[cls].mro)
ProperAncestors(cls) == Ancestors(cls) \ {cls}

\* the body of the class has a member of this name
Declares(cls, name) == In(name, classes[cls].attrs)

\* the body of the class has a callable member of this name, and the name
\* begins with validate_
DefinesValidator(cls, name) ==
    /\ name \in {"validate_a", "validate_b"}
    /\ Declares(cls, name)
    /\ Get(classes[cls].attrs, name).callable

\* cls._validators and the names it lists, in order
ValidatorMap(cls) == Get(classes[cls].attrs, "_validators")
ValidatorNames(cls) == Names(ValidatorMap(cls))

\* the names whose first definition on the way to the class is in its body
NewValidators(cls) ==
    {name \in Range(ValidatorNames(cls)) :
        /\ DefinesValidator(cls, name)
        /\ \A x \in ProperAncestors(cls) : ~DefinesValidator(x, name)}

\* [getattr(self, name) for name in self._validators]: what an instance of
\* the class runs for the names of the map
ClassValidators(hierarchy, cls) ==
    LET map == Get(hierarchy[cls].attrs, "_validators")
    IN  [n \in 1..Len(map) |-> GetAttr(hierarchy, cls, map[n].name)]

ErrorMap(cls) == Get(classes[cls].attrs, "_errors")
OwnErrors(cls) ==
    IF Declares(cls, "ERRORS") THEN Get(classes[cls].attrs, "ERRORS") ELSE << >>

\* the first class of the resolution order whose ERRORS table has the kind
NearestDeclaring(cls, kind) ==
    LET mro == classes[cls].mro
    IN  mro[Least({n \in 1..Len(mro) : In(kind, OwnErrors(mro[n]))})]

(***************************************************************************)
(* C15: the error table of every field class is the tables of its          *)
(* ancestors merged, then overridden by the ERRORS table of the class: a   *)
(* kind the class declares carries the message of the class, a kind it     *)
(* does not declare carries the message of the nearest ancestor that       *)
(* declares it, and the kinds 'required', 'to_data' and 'to_python' are in *)
(* the table of every field class.                                         *)
(***************************************************************************)
ErrorsMergedFromAncestors ==
    \A cls \in FieldClasses :
        /\ Range(Names(ErrorMap(cls))) =
                UNION {Range(Names(OwnErrors(x))) : x \in Ancestors(cls)}
        /\ \A kind \in Range(Names(ErrorMap(cls))) :
                Get(ErrorMap(cls), kind) = Message(NearestDeclaring(cls, kind), kind)
        /\ {"required", "to_data", "to_python"} \subseteq Range(Names(ErrorMap(cls)))

(***************************************************************************)
(* Python values and types, for the coercions.  A value is its type and    *)
(* its text; a type is called as int(x), float(x) and str(x) are: int      *)
(* truncates a float and parses a string of digits, float parses a string  *)
(* of a number, str gives the text; a string that does not parse raises    *)
(* ValueError.                                                             *)
(***************************************************************************)
PyType(name) == [py |-> "type", name |-> name]
PyValue(type, text) == [type |-> type, text |-> text]

PyValues ==
    {PyValue("int", "1"), PyValue("int", "2"), PyValue("float", "1.0"),
     PyValue("float", "1.5"), PyValue("str", "1"), PyValue("str", "1.5"),
     PyValue("str", "x")}

\* the whole number of a text, and the texts that have one
Whole(text) == CASE text \in {"1", "1.0", "1.5"} -> "1" [] text \in {"2", "2.0"} -> "2"
\* the decimal number of a text
Decimal(text) ==
    CASE text \in {"1", "1.0"} -> "1.0" [] text = "1.5" -> "1.5"
      [] text \in {"2", "2.0"} -> "2.0"

\* type(value): int(value), float(value), str(value)
Construct(type, value) ==
    CASE type.name = "str" -> Returned(PyValue("str", value.text))
      [] type.name = "int" ->
            IF value.type = "str" /\ value.text \notin {"1", "2"}
            THEN Raises(PlainError("ValueError", "int"))
            ELSE Returned(PyValue("int", Whole(value.text)))
      [] type.name = "float" ->
            IF value.type = "str" /\ value.text \notin {"1", "2", "1.0", "1.5", "2.0"}
            THEN Raises(PlainError("ValueError", "float"))
            ELSE Returned(PyValue("float", Decimal(value.text)))

\* isinstance(value, type)
IsInstance(value, type) == value.type = type.name

(***************************************************************************)
(* BaseField.  self is the record of the attributes of the instance; the   *)
(* class attributes are read through its class.                            *)
(***************************************************************************)
\* a callable passed in the validators argument, and a value that is not one
Passed(name) == [callable |-> TRUE, of |-> 0, name |-> name]
NotCallable(name) == [callable |-> FALSE, of |-> 0, name |-> name]

\* callable(validator) for the members of the argument
Callables(list) == SelectSeq(list, LAMBDA validator : validator.callable)

\* BaseField.__init__(self, required=True, default=None, validators=None)
BaseField_init(hierarchy, cls, validators) ==
    [made |-> TRUE, cls |-> cls, _required |-> TRUE, _default |-> NoneValue,
     _bound |-> FALSE,
     validators |->
        ClassValidators(hierarchy, cls)
        \o (IF "list" \in DOMAIN validators THEN Callables(validators.list) ELSE << >>)]

\* the error a validator raises
ValidatorError(validator) == [cls |-> "ValidationError", args |-> <<validator>>]

\* validator(value), where the validators of the places in raisers raise and
\* a value that is not callable cannot be called
CallValidator(validators, value, raisers, n) ==
    IF ~validators[n].callable THEN Raises(PlainError("TypeError", "not callable"))
    ELSE IF n \in raisers THEN Raises(ValidatorError(validators[n]))
    ELSE Returned(NoneValue)

\* validate that calls every validator and raises the first error at the end
RECURSIVE validate_all(_, _, _, _)
validate_all(validators, value, raisers, n) ==
    IF n > Len(validators) THEN [calls |-> << >>, raised |-> NoError, by |-> 0]
    ELSE LET called == CallValidator(validators, value, raisers, n)
             rest == validate_all(validators, value, raisers, n + 1)
         IN  [calls |-> <<[validator |-> validators[n], value |-> value]>> \o rest.calls,
              raised |-> IF called.ok THEN rest.raised ELSE called.err,
              by |-> IF called.ok THEN rest.by ELSE n]

\* BaseField.validate(self, value), from validator n on: the calls made, the
\* error that left the loop and the place of the validator that raised it
RECURSIVE validate(_, _, _, _)
validate(validators, value, raisers, n) ==
    IF n > Len(validators) THEN [calls |-> << >>, raised |-> NoError, by |-> 0]
    ELSE LET called == CallValidator(validators, value, raisers, n)
             rest == IF called.ok THEN validate(validators, value, raisers, n + 1)
                     ELSE [calls |-> << >>, raised |-> called.err, by |-> n]
         IN  [calls |-> <<[validator |-> validators[n], value |-> value]>> \o rest.calls,
              raised |-> rest.raised,
              by |-> rest.by]

\* raise Exception(self._errors[kind])
RaiseCoercion(hierarchy, cls, kind) ==
    LET errors == GetAttr(hierarchy, cls, "_errors")
    IN  IF In(kind, errors) THEN Raises(PlainError("Exception", Get(errors, kind)))
        ELSE Raises(PlainError("KeyError", kind))

\* BaseField.to_data(self, value)
to_data(hierarchy, cls, value) ==
    LET data_type == GetAttr(hierarchy, cls, "data_type")
    IN  IF IsNone(data_type) THEN Raises(PlainError("TypeError", "not callable"))
        ELSE LET made == Construct(data_type, value)
             IN  IF made.ok THEN Returned(made.value)
                 ELSE RaiseCoercion(hierarchy, cls, "to_data")

\* a result of to_python: whether python_type was called
Coerced(value, constructed) == [ok |-> TRUE, value |-> value, constructed |-> constructed]
NotCoerced(err, constructed) == [ok |-> FALSE, err |-> err, constructed |-> constructed]

\* to_python that calls python_type on every value
to_python_always(hierarchy, cls, value) ==
    LET python_type == GetAttr(hierarchy, cls, "python_type")
    IN  IF IsNone(python_type)
        THEN NotCoerced(PlainError("TypeError", "not callable"), FALSE)
        ELSE LET made == Construct(python_type, value)
             IN  IF made.ok THEN Coerced(made.value, TRUE)
                 ELSE NotCoerced(RaiseCoercion(hierarchy, cls, "to_python").err, TRUE)

\* BaseField.to_python(self, value)
to_python(hierarchy, cls, value) ==
    LET python_type == GetAttr(hierarchy, cls, "python_type")
    IN  IF IsNone(python_type)
        THEN NotCoerced(PlainError("TypeError", "isinstance"), FALSE)
        ELSE IF IsInstance(value, python_type) THEN Coerced(value, FALSE)
        ELSE LET made == Construct(python_type, value)
             IN  IF made.ok THEN Coerced(made.value, TRUE)
                 ELSE NotCoerced(RaiseCoercion(hierarchy, cls, "to_python").err, TRUE)

(***************************************************************************)
(* SpecField: one field instance of a class of a hierarchy of two classes  *)
(* below BaseField, made with or without a validators argument, then       *)
(* validated and coerced.                                                  *)
(***************************************************************************)
\* the data_type and python_type of the class bodies; none: the body has neither
NoTypes == <<"none", "none">>
TypePairs ==
    {NoTypes, <<"str", "str">>, <<"str", "int">>, <<"str", "float">>,
     <<"int", "float">>, <<"float", "int">>}

TypeItems(types) ==
    IF types = NoTypes THEN << >>
    ELSE <<Item("data_type", PyType(types[1])), Item("python_type", PyType(types[2]))>>

\* BaseField, a class below it with the types and the first body, and a
\* class below that one with the second body
Chain(types, first, second) ==
    LET root == <<FieldMeta_new(<< >>, BaseField, << >>, BaseFieldAttrs)>>
        one == Append(root,
                 FieldMeta_new(root, Len(root) + 1, <<BaseField>>,
                    TypeItems(types) \o ClassBody(Len(root) + 1, first, NoTable)))
    IN  Append(one,
            FieldMeta_new(one, Len(one) + 1, <<Len(one)>>,
                ClassBody(Len(one) + 1, second, NoTable)))

\* the validators argument of the constructor: None, or a list
ValidatorArgs ==
    {NoneValue, [list |-> << >>], [list |-> <<Passed("f")>>],
     [list |-> <<Passed("g"), NotCallable("n"), Passed("f")>>]}

\* the values validate is called with
ValidatedValues == {PyValue("int", "1"), PyValue("str", "x")}

InitField ==
    /\ _meta = [allowed_list |-> DefaultAllowed, allowed_detail |-> DefaultAllowed]
    /\ overridden = ActionNames
    /\ NoDispatches
    /\ \E types \in TypePairs, first, second \in Bodies :
            classes = Chain(types, first, second)
    /\ NoInstances

\* field = cls(validators=...)
NewField(args) ==
    /\ classes # << >>
    /\ field = NoField
    /\ \E cls \in 1..Len(classes), validators \in args :
        /\ field' = BaseField_init(classes, cls, validators)
        /\ ran' = [op |-> "__init__", validators |-> validators]
    /\ UNCHANGED <<resourceVars, classes, models, _data, bindings, written>>

\* field.validate(value), over the validators that raise
Validate(values) ==
    /\ field # NoField
    /\ \E value \in values, raisers \in SUBSET (1..Len(field.validators)) :
        ran' = [op |-> "validate", value |-> value, raisers |-> raisers,
                out |-> validate(field.validators, value, raisers, 1)]
    /\ UNCHANGED <<resourceVars, classes, field, models, _data, bindings, written>>

\* field.to_data(value)
ToData(values) ==
    /\ field # NoField
    /\ \E value \in values :
        ran' = [op |-> "to_data", value |-> value,
                out |-> to_data(classes, field.cls, value)]
    /\ UNCHANGED <<resourceVars, classes, field, models, _data, bindings, written>>

\* field.to_python(value)
ToPython(values) ==
    /\ field # NoField
    /\ \E value \in values :
        ran' = [op |-> "to_python", value |-> value, native |-> Absent,
                out |-> to_python(classes, field.cls, value)]
    /\ UNCHANGED <<resourceVars, classes, field, models, _data, bindings, written>>

\* field(wire), BaseField.__call__, on the value the last to_data returned:
\* native is the value that to_data was given
Call ==
    /\ field # NoField
    /\ ran.op = "to_data"
    /\ ran.out.ok
    /\ ran' = [op |-> "to_python", value |-> ran.out.value, native |-> ran.value,
               out |-> to_python(classes, field.cls, ran.out.value)]
    /\ UNCHANGED <<resourceVars, classes, field, models, _data, bindings, written>>

NextField ==
    \/ NewField(ValidatorArgs)
    \/ Validate(ValidatedValues)
    \/ ToData(PyValues)
    \/ ToPython(PyValues)
    \/ Call

SpecField == InitField /\ [][NextField]_vars

\* the validators that stop validate: those that raise and the values that
\* cannot be called
Stoppers(validators, raisers) ==
    raisers \cup {n \in 1..Len(validators) : ~validators[n].callable}

\* the calls of the first n validators with the value
CallsUpTo(validators, value, n) ==
    [k \in 1..n |-> [validator |-> validators[k], value |-> value]]

(***************************************************************************)
(* C12: the validator list of a field is the validators of its class, in   *)
(* the order of the map, followed by the callables of the validators       *)
(* argument, in the order given.  validate(value) calls the validators in  *)
(* that order, each with the same value; the first that raises ends the    *)
(* run, none after it is called and the error is its error; when none      *)
(* raises every validator is called exactly once.                          *)
(***************************************************************************)
ValidatorsRunInOrder ==
    field # NoField =>
        LET validators == field.validators
            derived == ClassValidators(classes, field.cls)
        IN  /\ SubSeq(validators, 1, Len(derived)) = derived
            /\ ran.op = "__init__" =>
                    validators = derived \o
                        (IF "list" \in DOMAIN ran.validators
                         THEN Callables(ran.validators.list) ELSE << >>)
            /\ ran.op = "validate" =>
                    LET stoppers == Stoppers(validators, ran.raisers)
                    IN  IF stoppers = {}
                        THEN /\ ran.out.raised = NoError
                             /\ ran.out.calls =
                                    CallsUpTo(validators, ran.value, Len(validators))
                        ELSE /\ ran.out.by = Least(stoppers)
                             /\ ran.out.calls =
                                    CallsUpTo(validators, ran.value, Least(stoppers))
                             /\ ran.out.raised # NoError
                             /\ validators[Least(stoppers)].callable =>
                                    ran.out.raised =
                                        ValidatorError(validators[Least(stoppers)])

\* a field with two validators of its class and the two callables of its
\* argument, in this order, whose second and fourth validators raise: the
\* first two were called and the error is that of the second
ValidatorsRunInOrderWitness ==
    /\ field # NoField
    /\ ran.op = "validate"
    /\ Len(field.validators) = 4
    /\ field.validators[1].name = "validate_a"
    /\ field.validators[2].name = "validate_b"
    /\ field.validators[3] = Passed("g")
    /\ field.validators[4] = Passed("f")
    /\ ran.raisers = {2, 4}
    /\ Len(ran.out.calls) = 2
    /\ ran.out.raised = ValidatorError(field.validators[2])

\* the wire type represents every value of the native type: it is the
\* native type, or str
Compatible(data_type, python_type) ==
    /\ ~IsNone(data_type)
    /\ ~IsNone(python_type)
    /\ data_type = python_type \/ data_type.name = "str"

(***************************************************************************)
(* C17: for a field class with compatible wire and native types and a      *)
(* value x of the native type, to_data(x) returns and to_python of what it *)
(* returns is x.  to_python of a value that is of the native type returns  *)
(* the value unchanged, without calling the native type.                   *)
(***************************************************************************)
CoercionRoundTrip ==
    field # NoField =>
        LET data_type == GetAttr(classes, field.cls, "data_type")
            python_type == GetAttr(classes, field.cls, "python_type")
        IN  /\ (/\ ran.op = "to_data"
                /\ Compatible(data_type, python_type)
                /\ IsInstance(ran.value, python_type)) => ran.out.ok
            /\ (/\ ran.op = "to_python"
                /\ ran.native # Absent
                /\ Compatible(data_type, python_type)
                /\ IsInstance(ran.native, python_type)) =>
                    /\ ran.out.ok
                    /\ ran.out.value = ran.native
            /\ (/\ ran.op = "to_python"
                /\ ~IsNone(python_type)
                /\ IsInstance(ran.value, python_type)) =>
                    ran.out = Coerced(ran.value, FALSE)

\* the float 1.5 went to the wire as the string '1.5' and came back, through
\* float(), as the float 1.5
CoercionRoundTripWitness ==
    /\ field # NoField
    /\ ran.op = "to_python"
    /\ GetAttr(classes, field.cls, "data_type") = PyType("str")
    /\ GetAttr(classes, field.cls, "python_type") = PyType("float")
    /\ ran.native = PyValue("float", "1.5")
    /\ ran.value = PyValue("str", "1.5")
    /\ ran.out = Coerced(PyValue("float", "1.5"), TRUE)

(***************************************************************************)
(* FieldDescriptor and BaseField.add_to_class.  A descriptor is the record *)
(* of its attributes: it refers to the field, whose name it reads when it  *)
(* is used; store is the _data of the model instance.                      *)
(***************************************************************************)
\* FieldDescriptor.__init__(self, field): self.field = field
FieldDescriptor == [field |-> "field"]

\* del d[key]
DictDel(d, key) == [k \in DOMAIN d \ {key} |-> d[k]]

\* FieldDescriptor.__get__(self, instance): instance._data.get(self.field.name)
Descriptor_get(descriptor, self, store) ==
    IF self.name \in DOMAIN store THEN Returned(store[self.name])
    ELSE Returned(NoneValue)

\* FieldDescriptor.__set__(self, instance, value): the store afterwards
Descriptor_set(descriptor, self, store, value) == SetKey(store, self.name, value)

\* FieldDescriptor.__delete__(self, instance): del instance._data[self.name],
\* where self is the descriptor; the result and the store afterwards
Descriptor_delete(descriptor, self, store) ==
    IF "name" \notin DOMAIN descriptor
    THEN [out |-> Raises(PlainError("AttributeError", "name")), store |-> store]
    ELSE IF descriptor.name \notin DOMAIN store
    THEN [out |-> Raises(PlainError("KeyError", descriptor.name)), store |-> store]
    ELSE [out |-> Returned(NoneValue), store |-> DictDel(store, descriptor.name)]

\* BaseField.add_to_class(self, model_class, name): the field afterwards
add_to_class(self, model_class, name) ==
    [SetKey(SetKey(self, "name", name), "model_class", model_class)
        EXCEPT !._bound = TRUE]

(***************************************************************************)
(* SpecBinding: one field of class BaseField, added to the model classes   *)
(* under the names up to MaxBindings times, and the attributes of one      *)
(* instance of the model class InstanceClass read, set and deleted through *)
(* the descriptors.                                                        *)
(***************************************************************************)
InstanceClass == "M1"
AttributeNames == {"a", "b"}
StoredValues == {PyValue("int", "1"), PyValue("int", "2")}

InitBinding ==
    /\ _meta = [allowed_list |-> DefaultAllowed, allowed_detail |-> DefaultAllowed]
    /\ overridden = ActionNames
    /\ NoDispatches
    /\ classes = <<FieldMeta_new(<< >>, BaseField, << >>, BaseFieldAttrs)>>
    /\ field = BaseField_init(classes, BaseField, NoneValue)
    /\ models = [m \in Models |-> EmptyDict]
    /\ _data = EmptyDict
    /\ ran = NoCall
    /\ bindings = << >>
    /\ written = EmptyDict

\* field.add_to_class(model_class, name); bindings keeps the calls
AddToClass(model_classes, names) ==
    /\ field # NoField
    /\ Len(bindings) < MaxBindings
    /\ \E model_class \in model_classes, name \in names :
        /\ field' = add_to_class(field, model_class, name)
        /\ models' = [models EXCEPT ![model_class] = SetKey(@, name, FieldDescriptor)]
        /\ bindings' = Append(bindings, [model_class |-> model_class, name |-> name])
        /\ ran' = [op |-> "add_to_class", model_class |-> model_class, name |-> name,
                   out |-> Returned(NoneValue)]
    /\ UNCHANGED <<resourceVars, classes, _data, written>>

\* instance.name, for a name the class of the instance has a descriptor under
DescriptorGet ==
    /\ \E name \in DOMAIN models[InstanceClass] :
        ran' = [op |-> "get", name |-> name,
                out |-> Descriptor_get(models[InstanceClass][name], field, _data)]
    /\ UNCHANGED <<resourceVars, classes, field, models, _data, bindings, written>>

\* instance.name = value
DescriptorSet(values) ==
    /\ \E value \in values : \E name \in DOMAIN models[InstanceClass] :
        /\ _data' = Descriptor_set(models[InstanceClass][name], field, _data, value)
        /\ written' = SetKey(written, name, value)
        /\ ran' = [op |-> "set", name |-> name, value |-> value,
                   before |-> _data, out |-> Returned(NoneValue)]
    /\ UNCHANGED <<resourceVars, classes, field, models, bindings>>

\* del instance.name
DescriptorDelete ==
    /\ \E name \in DOMAIN models[InstanceClass] :
        LET deleted == Descriptor_delete(models[InstanceClass][name], field, _data)
        IN  /\ _data' = deleted.store
            /\ written' = DictDel(written, name)
            /\ ran' = [op |-> "delete", name |-> name,
                       before |-> _data, out |-> deleted.out]
    /\ UNCHANGED <<resourceVars, classes, field, models, bindings>>

NextBinding ==
    \/ AddToClass(Models, AttributeNames)
    \/ DescriptorGet
    \/ DescriptorSet(StoredValues)
    \/ DescriptorDelete

SpecBinding == InitBinding /\ [][NextBinding]_vars

(***************************************************************************)
(* C13: add_to_class on a field that is bound is an error and is not       *)
(* accepted: after any sequence of calls the name and the model class of   *)
(* the field are those of the first call, the field is bound, and the      *)
(* model class of the first call is the only one that carries a descriptor *)
(* of the field, under the name of the first call.                         *)
(***************************************************************************)
BoundOnce ==
    bindings # << >> =>
        /\ field._bound
        /\ field.name = bindings[1].name
        /\ field.model_class = bindings[1].model_class
        /\ \A m \in Models :
                DOMAIN models[m] =
                    IF m = bindings[1].model_class THEN {bindings[1].name} ELSE {}
        /\ (ran.op = "add_to_class" /\ Len(bindings) > 1) => ~ran.out.ok

(***************************************************************************)
(* C14: once the field is bound under the name n, the attribute n of a     *)
(* model instance works on the store of the instance under the key n: get  *)
(* returns the value of the last set that no delete followed, and the      *)
(* absent value when there is none; set changes the key n and no other;    *)
(* delete removes the key n and no other, so that a get after it returns   *)
(* the absent value.                                                       *)
(***************************************************************************)
AttributeRoutesToStore ==
    (Len(bindings) = 1 /\ bindings[1].model_class = InstanceClass) =>
        LET n == bindings[1].name
        IN  /\ _data = written
            /\ ran.op = "get" =>
                    ran.out = IF n \in DOMAIN written THEN Returned(written[n])
                              ELSE Returned(NoneValue)
            /\ ran.op = "set" => _data = SetKey(ran.before, n, ran.value)
            /\ ran.op = "delete" =>
                    /\ ran.out.ok
                    /\ _data = DictDel(ran.before, n)

=============================================================================
